---- MODULE Spec2Model ----
(***************************************************************************)
(* A model of the report-processing forms of this repository: the header   *)
(* locator (find_data_start), the column reconciler and its interactive    *)
(* resolver (map_columns), the mapping store upsert (save_to_db), the      *)
(* fuzzy matcher (get_best_column_match) and the table-name sanitiser      *)
(* (sanitize_table_name).                                                  *)
(*                                                                         *)
(* A Python str is a sequence of one-character strings, so that lower(),   *)
(* strip(), substring search and re.sub are computed, not assumed.         *)
(***************************************************************************)
EXTENDS Integers, Sequences, FiniteSets, TLC

VARIABLES
    store,           \* table RevReport: rows (report_columns, required_columns)
    uploaded,        \* st.file_uploader: the file in place (or none)
    widget,          \* the selectbox values the framework keeps, by column
    column_mapping,  \* st.session_state.column_mapping
    run,             \* what the last script run computed and displayed
    txn,             \* the open transaction of save_to_db
    notice,          \* the last message of save_to_db
    call             \* a call of one of the pure functions and its result

vars == <<store, uploaded, widget, column_mapping, run, txn, notice, call>>

(***************************************************************************)
(* Strings                                                                 *)
(***************************************************************************)
Uppercase ==
    <<"A","B","C","D","E","F","G","H","I","J","K","L","M",
      "N","O","P","Q","R","S","T","U","V","W","X","Y","Z">>

Lowercase ==
    <<"a","b","c","d","e","f","g","h","i","j","k","l","m",
      "n","o","p","q","r","s","t","u","v","w","x","y","z">>

DigitChars ==
    {"0","1","2","3","4","5","6","7","8","9"}

Range(s) ==
    {s[i] : i \in DOMAIN s}

IsUpper(c) ==
    c \in Range(Uppercase)

IsAlpha(c) ==
    c \in Range(Uppercase) \cup Range(Lowercase)

IsAlnum(c) ==
    IsAlpha(c) \/ c \in DigitChars

LowerChar(c) ==
    IF IsUpper(c)
    THEN Lowercase[CHOOSE i \in DOMAIN Uppercase : Uppercase[i] = c]
    ELSE c

\* str.lower()
Lower(s) ==
    [i \in DOMAIN s |-> LowerChar(s[i])]

\* str.strip(): leading and trailing blanks removed
Strip(s) ==
    LET keep == {i \in DOMAIN s : s[i] # " "}
    IN  IF keep = {} THEN <<>>
        ELSE LET lo == CHOOSE i \in keep : \A j \in keep : i <= j
                 hi == CHOOSE i \in keep : \A j \in keep : j <= i
             IN  SubSeq(s, lo, hi)

\* sub in s (Python's substring test)
Contains(sub, s) ==
    \E k \in 0..(Len(s) - Len(sub)) : SubSeq(s, k + 1, k + Len(sub)) = sub

\* every sequence over S of length lo..hi
SeqsOf(S, lo, hi) ==
    UNION {[1..n -> S] : n \in lo..hi}

(***************************************************************************)
(* sanitize_table_name (project.py)                                        *)
(***************************************************************************)
\* filename.rsplit('.', 1)[0]
Stem(filename) ==
    LET dots == {i \in DOMAIN filename : filename[i] = "."}
    IN  IF dots = {} THEN filename
        ELSE SubSeq(filename, 1, (CHOOSE i \in dots : \A j \in dots : j <= i) - 1)

\* the character class [^a-zA-Z0-9_] of the substitution
IsSpecial(c) ==
    ~(IsAlnum(c) \/ c = "_")

\* a bug the per-character substitution could have: a run collapsed to one "_"
ReSubRuns(s) ==
    LET kept == {i \in DOMAIN s : ~IsSpecial(s[i]) \/ i = 1 \/ ~IsSpecial(s[i - 1])}
        F[n \in 0..Len(s)] ==
            IF n = 0 THEN <<>>
            ELSE IF n \in kept
                 THEN Append(F[n - 1], IF IsSpecial(s[n]) THEN "_" ELSE s[n])
                 ELSE F[n - 1]
    IN  F[Len(s)]

\* re.sub(r'[^a-zA-Z0-9_]', '_', table_name)
ReSub(s) ==
    [i \in DOMAIN s |-> IF IsSpecial(s[i]) THEN "_" ELSE s[i]]

ReportPrefix ==
    <<"r","e","p","o","r","t","_">>

\* a bug the prefix rule could have: the prefix is never applied
NeedsPrefixNever(s) ==
    FALSE

\* not table_name[0].isalpha()
NeedsPrefix(s) ==
    ~IsAlpha(s[1])

\* table_name[0] of an empty name raises IndexError: ok = FALSE
sanitize_table_name(filename) ==
    LET table_name == ReSub(Stem(filename))
    IN  IF table_name = <<>>
        THEN [ok |-> FALSE, name |-> <<>>]
        ELSE [ok |-> TRUE,
              name |-> Lower(IF NeedsPrefix(table_name)
                             THEN ReportPrefix \o table_name
                             ELSE table_name)]

MaxFileNameLen == 3

FileChars ==
    {"a", "Q", "1", " ", "(", ".", "_"}

MyReportQ1 ==
    <<"M","y"," ","R","e","p","o","r","t"," ","(","Q","1",")",".","x","l","s","x">>

Report2024 ==
    <<"2","0","2","4","_","r","e","p","o","r","t",".","c","s","v">>

FileNames ==
    SeqsOf(FileChars, 1, MaxFileNameLen) \cup {MyReportQ1, Report2024}

\* no file in the uploader
NoFile ==
    [present |-> FALSE, columns |-> <<>>]

\* a script run that did not reach map_columns
NoRun ==
    [shown |-> FALSE, revreport_df |-> <<>>, df_columns |-> <<>>,
     unmatched_columns |-> <<>>, column_name_mapping |-> <<>>, offered |-> <<>>]

\* no transaction open
NoTxn ==
    [open |-> FALSE, i |-> 0, writes |-> <<>>, new_columns_added |-> FALSE]

\* no message of save_to_db on the page
NoNotice ==
    [msg |-> "none", saved |-> <<>>, before |-> <<>>, after |-> <<>>]

\* the form before any interaction, the mapping store left aside
SessionStart ==
    /\ uploaded = NoFile
    /\ widget = <<>>
    /\ column_mapping = <<>>
    /\ run = NoRun
    /\ txn = NoTxn
    /\ notice = NoNotice

AppIdle ==
    /\ store = <<>>
    /\ SessionStart

appVars == <<store, uploaded, widget, column_mapping, run, txn, notice>>

InitSanitize ==
    /\ AppIdle
    /\ call \in {[fn |-> "sanitize_table_name", arg |-> f, done |-> FALSE,
                  result |-> [ok |-> FALSE, name |-> <<>>]] : f \in FileNames}

CallSanitize ==
    /\ call.fn = "sanitize_table_name"
    /\ ~call.done
    /\ call' = [call EXCEPT !.done = TRUE, !.result = sanitize_table_name(call.arg)]
    /\ UNCHANGED appVars

NextSanitize ==
    CallSanitize

SpecSanitize ==
    InitSanitize /\ [][NextSanitize]_vars

\* C8: sanitize_table_name strips the extension, replaces the special characters,
\* prefixes "report_" when the first character is not a letter and lower-cases:
\* "My Report (Q1).xlsx" yields "my_report__q1_" and "2024_report.csv" yields
\* "report_2024_report"; in general the result holds no upper-case letter, no
\* special character, and starts with "report_" plus a non-letter exactly when
\* the stem does not start with a letter.
C8_SanitizeExamples ==
    (call.fn = "sanitize_table_name" /\ call.done) =>
        LET r == call.result
            stem == Stem(call.arg)
        IN  /\ call.arg = MyReportQ1 =>
                (r.ok /\ r.name = <<"m","y","_","r","e","p","o","r","t","_","_","q","1","_">>)
            /\ call.arg = Report2024 =>
                (r.ok /\ r.name = <<"r","e","p","o","r","t","_","2","0","2","4","_",
                                    "r","e","p","o","r","t">>)
            /\ r.ok =>
                /\ \A i \in DOMAIN r.name : ~IsUpper(r.name[i]) /\ ~IsSpecial(r.name[i])
                /\ IsAlpha(r.name[1])
                /\ (Len(r.name) = Len(stem) + Len(ReportPrefix)) <=> ~IsAlpha(stem[1])
                /\ Len(r.name) # Len(stem) + Len(ReportPrefix) => Len(r.name) = Len(stem)

C8_Witness ==
    /\ call.fn = "sanitize_table_name"
    /\ call.done
    /\ call.arg = Report2024
    /\ call.result.ok
    /\ SubSeq(call.result.name, 1, 7) = ReportPrefix

\* what the stem becomes when every maximal run of non-alphanumeric characters
\* is replaced by a single underscore
OneUnderscorePerRun(s) ==
    LET first == {i \in DOMAIN s : ~IsAlnum(s[i]) /\ (i = 1 \/ IsAlnum(s[i - 1]))}
        F[n \in 0..Len(s)] ==
            IF n = 0 THEN <<>>
            ELSE IF IsAlnum(s[n]) THEN Append(F[n - 1], s[n])
                 ELSE IF n \in first THEN Append(F[n - 1], "_")
                      ELSE F[n - 1]
    IN  F[Len(s)]

\* C9 as stated: each maximal run of consecutive non-alphanumeric characters of
\* the stem yields a single underscore.
C9_RunsCollapsed ==
    (call.fn = "sanitize_table_name" /\ call.done /\ call.result.ok) =>
        LET t == OneUnderscorePerRun(Stem(call.arg))
        IN  call.result.name = Lower(IF IsAlpha(t[1]) THEN t ELSE ReportPrefix \o t)

\* C9 amended: each character of the stem other than a letter, a digit or an
\* underscore is replaced by one underscore of its own, the others are kept
\* (lower-cased), so the stem's length is preserved after the optional prefix
\* and a run of k special characters yields k underscores.
C9_OneUnderscorePerChar ==
    (call.fn = "sanitize_table_name" /\ call.done /\ call.result.ok) =>
        LET stem == Stem(call.arg)
            name == call.result.name
            off == Len(name) - Len(stem)
        IN  /\ off \in {0, Len(ReportPrefix)}
            /\ \A i \in DOMAIN stem :
                   name[off + i] = IF IsSpecial(stem[i]) THEN "_" ELSE LowerChar(stem[i])

C9_Witness ==
    /\ call.fn = "sanitize_table_name"
    /\ call.done
    /\ call.result.ok
    /\ LET stem == Stem(call.arg)
           name == call.result.name
           off == Len(name) - Len(stem)
       IN  \E i \in 1..(Len(stem) - 1) :
               /\ IsSpecial(stem[i]) /\ IsSpecial(stem[i + 1])
               /\ name[off + i] = "_" /\ name[off + i + 1] = "_"

(***************************************************************************)
(* find_data_start (db_table.py; the same code in project.py, test_conn.py)*)
(* A DataFrame is a sequence of rows of equal width; a cell is the text    *)
(* str(cell) gives.                                                        *)
(***************************************************************************)
\* a bug the test could have: the cell's text is not lower-cased
RowHasAliasCaseSensitive(row, standard_columns) ==
    \E c \in DOMAIN row : \E a \in DOMAIN standard_columns :
        Contains(Lower(standard_columns[a]), row[c])

\* any(any(possible_col.lower() in str(cell).lower() ...) for cell in row)
RowHasAlias(row, standard_columns) ==
    \E c \in DOMAIN row : \E a \in DOMAIN standard_columns :
        Contains(Lower(standard_columns[a]), Lower(row[c]))

\* df.iterrows() yields the rows top to bottom with their 0-based index
find_data_start(df, standard_columns) ==
    LET hits == {i \in DOMAIN df : RowHasAlias(df[i], standard_columns)}
    IN  IF hits = {} THEN 0
        ELSE (CHOOSE i \in hits : \A j \in hits : i <= j) - 1

MaxRows == 2

MaxAliases == 1

GridWidths ==
    {1, 2}

AliasPool ==
    {<<"C","o","u","n","t","r","y">>, <<"m","o","n","t","h">>}

CellPool ==
    {<<"C","O","U","N","T","R","Y">>, <<"T","o","t","a","l">>,
     <<"6"," ","M","o","n","t","h","s">>}

Grids ==
    UNION {SeqsOf([1..w -> CellPool], 0, MaxRows) : w \in GridWidths}

InitHeader ==
    /\ AppIdle
    /\ call \in {[fn |-> "find_data_start",
                  arg |-> [df |-> g, standard_columns |-> a],
                  done |-> FALSE, result |-> [idx |-> 0]] :
                 g \in Grids, a \in SeqsOf(AliasPool, 0, MaxAliases)}

CallFindDataStart ==
    /\ call.fn = "find_data_start"
    /\ ~call.done
    /\ call' = [call EXCEPT !.done = TRUE,
                            !.result = [idx |-> find_data_start(call.arg.df,
                                                                call.arg.standard_columns)]]
    /\ UNCHANGED appVars

NextHeader ==
    CallFindDataStart

SpecHeader ==
    InitHeader /\ [][NextHeader]_vars

\* a cell's text holds the alias at some offset, letter case ignored
HoldsAlias(cell, alias) ==
    \E off \in 0..(Len(cell) - Len(alias)) :
        \A k \in DOMAIN alias : LowerChar(cell[off + k]) = LowerChar(alias[k])

Qualifies(row, aliases) ==
    \E c \in DOMAIN row : \E a \in DOMAIN aliases : HoldsAlias(row[c], aliases[a])

\* C3: find_data_start returns the index of the first row in which some cell's
\* text case-insensitively contains some alias, and 0 when no row qualifies
\* (an empty grid and an empty alias list included).
C3_FirstHeaderRow ==
    (call.fn = "find_data_start" /\ call.done) =>
        LET df == call.arg.df
            al == call.arg.standard_columns
            r == call.result.idx
        IN  IF \E i \in DOMAIN df : Qualifies(df[i], al)
            THEN /\ r + 1 \in DOMAIN df
                 /\ Qualifies(df[r + 1], al)
                 /\ \A i \in 1..r : ~Qualifies(df[i], al)
            ELSE r = 0

C3_Witness ==
    /\ call.fn = "find_data_start"
    /\ call.done
    /\ call.result.idx = 1
    /\ Qualifies(call.arg.df[2], call.arg.standard_columns)
    /\ ~Qualifies(call.arg.df[1], call.arg.standard_columns)

(***************************************************************************)
(* get_best_column_match (proj.py) and difflib.SequenceMatcher.ratio       *)
(* A ratio is the fraction num/den, compared by cross-multiplication.      *)
(* Positions are 1-based; a range lo..hi excludes hi, as in difflib.       *)
(***************************************************************************)
RECURSIVE RunLen(_, _, _, _, _, _)
\* the length of the common run of a from i and b from j
RunLen(a, b, i, j, ahi, bhi) ==
    IF i < ahi /\ j < bhi /\ a[i] = b[j]
    THEN 1 + RunLen(a, b, i + 1, j + 1, ahi, bhi)
    ELSE 0

\* SequenceMatcher.find_longest_match without junk: the longest block, the one
\* starting earliest in a, and of those the one starting earliest in b
find_longest_match(a, b, alo, ahi, blo, bhi) ==
    LET at == (alo..(ahi - 1)) \X (blo..(bhi - 1))
        size == CHOOSE k \in 0..(ahi - alo) :
                    /\ \A p \in at : RunLen(a, b, p[1], p[2], ahi, bhi) <= k
                    /\ k = 0 \/ \E p \in at : RunLen(a, b, p[1], p[2], ahi, bhi) = k
        longest == {p \in at : RunLen(a, b, p[1], p[2], ahi, bhi) = size}
        first == CHOOSE p \in longest : \A q \in longest :
                     p[1] < q[1] \/ (p[1] = q[1] /\ p[2] <= q[2])
    IN  IF size = 0 THEN [i |-> alo, j |-> blo, size |-> 0]
        ELSE [i |-> first[1], j |-> first[2], size |-> size]

RECURSIVE Matches(_, _, _, _, _, _)
\* the sum of the sizes of SequenceMatcher.get_matching_blocks
Matches(a, b, alo, ahi, blo, bhi) ==
    IF alo >= ahi \/ blo >= bhi THEN 0
    ELSE LET m == find_longest_match(a, b, alo, ahi, blo, bhi)
         IN  IF m.size = 0 THEN 0
             ELSE m.size + Matches(a, b, alo, m.i, blo, m.j)
                         + Matches(a, b, m.i + m.size, ahi, m.j + m.size, bhi)

\* SequenceMatcher(None, a, b).ratio(): 2.0 * matches / (len(a) + len(b)), and
\* 1.0 for two empty strings
Ratio(a, b) ==
    IF Len(a) + Len(b) = 0 THEN [num |-> 1, den |-> 1]
    ELSE [num |-> 2 * Matches(a, b, 1, Len(a) + 1, 1, Len(b) + 1),
          den |-> Len(a) + Len(b)]

\* r > q
Greater(r, q) ==
    r.num * q.den > q.num * r.den

\* the literal 0.8
Threshold ==
    [num |-> 4, den |-> 5]

\* a bug the threshold test could have: a ratio of exactly 0.8 accepted
AboveThresholdOrEqual(ratio) ==
    ~Greater(Threshold, ratio)

\* ratio > 0.8
AboveThreshold(ratio) ==
    Greater(ratio, Threshold)

\* a bug the normalisation could have: the column is lower-cased but not trimmed
NormalizeNoStrip(column) ==
    Lower(column)

\* column = column.lower().strip()
Normalize(column) ==
    Strip(Lower(column))

\* column in [var.lower() for var in variations]
ExactMatch(column, variations) ==
    \E v \in DOMAIN variations : column = Lower(variations[v])

RECURSIVE FuzzyField(_, _, _, _)
\* for variation in variations: the best match so far, from variation k on
FuzzyField(column, field, k, best) ==
    IF k > Len(field.variations) THEN best
    ELSE LET ratio == Ratio(Lower(column), Lower(field.variations[k]))
         IN  FuzzyField(column, field, k + 1,
                 IF Greater(ratio, best.ratio) /\ AboveThreshold(ratio)
                 THEN [found |-> TRUE, match |-> field.name, ratio |-> ratio]
                 ELSE best)

RECURSIVE ScanFields(_, _, _, _)
\* for standard_name, variations in standard_columns.items(), from field i on
ScanFields(column, standard_columns, i, best) ==
    IF i > Len(standard_columns) THEN best
    ELSE IF ExactMatch(column, standard_columns[i].variations)
         THEN [found |-> TRUE, match |-> standard_columns[i].name,
               ratio |-> [num |-> 1, den |-> 1]]
         ELSE ScanFields(column, standard_columns, i + 1,
                         FuzzyField(column, standard_columns[i], 1, best))

\* best_match = None, best_ratio = 0
NoMatch ==
    [found |-> FALSE, match |-> <<>>, ratio |-> [num |-> 0, den |-> 1]]

get_best_column_match(column, standard_columns) ==
    ScanFields(Normalize(column), standard_columns, 1, NoMatch)

MaxVariations == 2

FieldNames ==
    {<<"e","M","o","n","t","h">>, <<"c","o","u","n","t","r","y">>}

VariationPool ==
    {<<"m","o","n","t","h">>, <<"m","o","n","t","h","s">>,
     <<"C","o","u","n","t","r","y">>}

ColumnPool ==
    {<<"M","o","n","t","h">>, <<" ","M","O","N","T","H","S"," ">>,
     <<"m","o","n","t">>, <<"c","o","u","n","t","y">>,
     <<"C","O","U","N","T","R","Y">>, <<"X","Y","Z">>}

\* the dictionaries: every order of every subset of the field names, each field
\* with a list of variations
StandardColumnDicts ==
    {d \in SeqsOf([name : FieldNames,
                   variations : SeqsOf(VariationPool, 1, MaxVariations)],
                  0, Cardinality(FieldNames)) :
        \A i, j \in DOMAIN d : i # j => d[i].name # d[j].name}

InitMatch ==
    /\ AppIdle
    /\ call \in {[fn |-> "get_best_column_match",
                  arg |-> [column |-> c, standard_columns |-> d],
                  done |-> FALSE, result |-> NoMatch] :
                 c \in ColumnPool, d \in StandardColumnDicts}

CallGetBestColumnMatch ==
    /\ call.fn = "get_best_column_match"
    /\ ~call.done
    /\ call' = [call EXCEPT !.done = TRUE,
                            !.result = get_best_column_match(call.arg.column,
                                                             call.arg.standard_columns)]
    /\ UNCHANGED appVars

NextMatch ==
    CallGetBestColumnMatch

SpecMatch ==
    InitMatch /\ [][NextMatch]_vars

\* the trimmed, lower-cased column equals the lower-cased form of an alias
EqualsAlias(column, alias) ==
    LET c == Strip([i \in DOMAIN column |-> LowerChar(column[i])])
    IN  /\ Len(c) = Len(alias)
        /\ \A k \in DOMAIN alias : c[k] = LowerChar(alias[k])

HasExactAlias(column, field) ==
    \E v \in DOMAIN field.variations : EqualsAlias(column, field.variations[v])

\* some alias of the field has a similarity ratio above 0.8 with the column
HasCloseAlias(column, field) ==
    \E v \in DOMAIN field.variations :
        Greater(Ratio(Strip(Lower(column)), Lower(field.variations[v])), Threshold)

\* C6: when the trimmed, lower-cased column equals the lower-cased form of an
\* alias of a canonical field, get_best_column_match returns that field (the
\* first such field of the dictionary) with score 1.0, whatever the fuzzy
\* scores of the fields visited before it.
C6_ExactMatchWins ==
    (call.fn = "get_best_column_match" /\ call.done) =>
        LET sc == call.arg.standard_columns
            exact == {i \in DOMAIN sc : HasExactAlias(call.arg.column, sc[i])}
        IN  exact # {} =>
                /\ call.result.found
                /\ call.result.ratio.num = call.result.ratio.den
                /\ call.result.match =
                       sc[CHOOSE i \in exact : \A j \in exact : i <= j].name

C6_Witness ==
    /\ call.fn = "get_best_column_match"
    /\ call.done
    /\ LET sc == call.arg.standard_columns
       IN  /\ Len(sc) = 2
           /\ ~HasExactAlias(call.arg.column, sc[1])
           /\ HasCloseAlias(call.arg.column, sc[1])
           /\ HasExactAlias(call.arg.column, sc[2])
           /\ call.result.match = sc[2].name
           /\ call.result.ratio.num = call.result.ratio.den

\* C7: without an exact match, get_best_column_match returns a field only on
\* the strength of an alias of that field whose ratio is above 0.8 (the ratio
\* it reports), and returns no match with ratio 0 when no alias scores above
\* 0.8.
C7_FuzzyAboveThreshold ==
    (call.fn = "get_best_column_match" /\ call.done) =>
        LET sc == call.arg.standard_columns
            col == call.arg.column
            r == call.result
        IN  (\A i \in DOMAIN sc : ~HasExactAlias(col, sc[i])) =>
                /\ r.found =>
                       /\ r.ratio.num * 5 > r.ratio.den * 4
                       /\ \E i \in DOMAIN sc : \E v \in DOMAIN sc[i].variations :
                              /\ sc[i].name = r.match
                              /\ LET q == Ratio(Strip(Lower(col)), Lower(sc[i].variations[v]))
                                 IN  q.num * r.ratio.den = r.ratio.num * q.den
                /\ (\A i \in DOMAIN sc : ~HasCloseAlias(col, sc[i])) =>
                       (~r.found /\ r.ratio.num = 0)
                /\ (\E i \in DOMAIN sc : HasCloseAlias(col, sc[i])) => r.found

\* the boundary: the only alias scores exactly 0.8 and is not accepted
C7_Witness ==
    /\ call.fn = "get_best_column_match"
    /\ call.done
    /\ LET sc == call.arg.standard_columns
       IN  /\ Len(sc) = 1 /\ Len(sc[1].variations) = 1
           /\ LET q == Ratio(Strip(Lower(call.arg.column)), Lower(sc[1].variations[1]))
              IN  q.num * 5 = q.den * 4
    /\ ~call.result.found
    /\ call.result.ratio.num = 0

(***************************************************************************)
(* map_columns (db_table.py)                                               *)
(* revreport_df is the rows read from RevReport, in the order read;        *)
(* st.session_state.column_mapping is a sequence of rows (original,        *)
(* mapped); a dict is a function.  The empty string "" is <<>>.            *)
(***************************************************************************)
Empty ==
    <<>>

\* list.index(x): the first position of x
IndexOf(list, x) ==
    CHOOSE i \in DOMAIN list : list[i] = x /\ \A j \in 1..(i - 1) : list[j] # x

\* {row['Original Column']: row['Mapped Column'] for ...}: a later row wins
existing_mapping_of(cm) ==
    [c \in {cm[i].original : i \in DOMAIN cm} |->
        cm[CHOOSE i \in DOMAIN cm :
               cm[i].original = c /\ \A j \in DOMAIN cm : cm[j].original = c => j <= i].mapped]

\* revreport_df['report_columns'].str.lower().tolist()
report_columns_of(revreport_df) ==
    [i \in DOMAIN revreport_df |-> Lower(revreport_df[i].report_columns)]

\* revreport_df['required_columns'].tolist()
required_columns_of(revreport_df) ==
    [i \in DOMAIN revreport_df |-> revreport_df[i].required_columns]

\* a bug the first pass could have: the column is not lower-cased
IsMatchedNoLower(col, revreport_df, existing_mapping) ==
    \/ col \in DOMAIN existing_mapping
    \/ \E i \in DOMAIN revreport_df : report_columns_of(revreport_df)[i] = col

\* first pass: the column is matched by the existing mapping or, lower-cased,
\* by a lower-cased report column
IsMatched(col, revreport_df, existing_mapping) ==
    \/ col \in DOMAIN existing_mapping
    \/ \E i \in DOMAIN revreport_df : report_columns_of(revreport_df)[i] = Lower(col)

\* a bug the first pass could have: no `continue` after a match by the
\* existing mapping, so the column goes on to the test against the store
IsUnmatchedNoContinue(col, revreport_df, existing_mapping) ==
    \A i \in DOMAIN revreport_df : report_columns_of(revreport_df)[i] # Lower(col)

\* first pass: the column reaches unmatched_columns.append(col), after neither
\* test has matched it
IsUnmatched(col, revreport_df, existing_mapping) ==
    ~IsMatched(col, revreport_df, existing_mapping)

\* first pass: new_col_name
NewColName(col, revreport_df, existing_mapping) ==
    IF col \in DOMAIN existing_mapping
    THEN existing_mapping[col]
    ELSE required_columns_of(revreport_df)[
             IndexOf(report_columns_of(revreport_df), Lower(col))]

\* [col for col in required_columns if col not in matched_required_columns]
Remaining(required_columns, matched_required_columns) ==
    SelectSeq(required_columns,
              LAMBDA c : \A i \in DOMAIN matched_required_columns :
                             matched_required_columns[i] # c)

\* list.remove(x): the first occurrence of x is removed
RemoveFirst(list, x) ==
    IF \E i \in DOMAIN list : list[i] = x
    THEN LET k == IndexOf(list, x)
         IN  SubSeq(list, 1, k - 1) \o SubSeq(list, k + 1, Len(list))
    ELSE list

\* a bug the rename could have: the result of rename is dropped
RenameColumnDropped(df_columns, old, new) ==
    df_columns

\* processed_df.rename(columns={old: new})
RenameColumn(df_columns, old, new) ==
    [i \in DOMAIN df_columns |-> IF df_columns[i] = old THEN new ELSE df_columns[i]]

\* st.selectbox(..., options, key): the value the framework keeps for the key
\* when it is one of the options, else the first option
selectbox(options, key, widgets) ==
    IF key \in DOMAIN widgets /\ widgets[key] \in Range(options)
    THEN widgets[key]
    ELSE options[1]

\* a bug the resolver could have: it goes on to the next column after a blank
SelectedOrBlank(new_name) ==
    TRUE

\* if new_name: a name other than "" was selected
Selected(new_name) ==
    new_name # Empty

RECURSIVE recursive_column_mapping(_, _, _, _)
\* st = the DataFrame's columns, the session's column_mapping, the remaining
\* required columns and the dropdowns offered so far
recursive_column_mapping(unmatched_cols, existing_mapping, widgets, st) ==
    IF unmatched_cols = <<>> THEN st
    ELSE LET unmatched_col == Head(unmatched_cols)
             known == unmatched_col \in DOMAIN existing_mapping
             options == <<Empty>> \o st.remaining
             new_name == IF known THEN existing_mapping[unmatched_col]
                         ELSE selectbox(options, unmatched_col, widgets)
             shown == IF known THEN st.offered
                      ELSE Append(st.offered, [column |-> unmatched_col,
                                               options |-> options,
                                               value |-> new_name])
         IN  IF Selected(new_name)
             THEN recursive_column_mapping(Tail(unmatched_cols), existing_mapping, widgets,
                      [df_columns |-> RenameColumn(st.df_columns, unmatched_col, new_name),
                       column_mapping |-> Append(st.column_mapping,
                                                 [original |-> unmatched_col,
                                                  mapped |-> new_name]),
                       remaining |-> RemoveFirst(st.remaining, new_name),
                       offered |-> shown])
             ELSE [st EXCEPT !.offered = shown]

\* map_columns(processed_df, revreport_df) on the session's column_mapping and
\* widget values: what it returns, what it leaves in the session, and the
\* dropdowns it rendered
map_columns(columns, revreport_df, session_mapping, widgets) ==
    LET existing_mapping == existing_mapping_of(session_mapping)
        matched == SelectSeq(columns,
                       LAMBDA c : IsMatched(c, revreport_df, existing_mapping))
        unmatched_columns ==
            SelectSeq(columns, LAMBDA c : IsUnmatched(c, revreport_df, existing_mapping))
        column_name_mapping ==
            [c \in Range(matched) |-> NewColName(c, revreport_df, existing_mapping)]
        matched_required_columns ==
            [i \in DOMAIN matched |-> column_name_mapping[matched[i]]]
        renamed == [i \in DOMAIN columns |->
                        IF columns[i] \in DOMAIN column_name_mapping
                        THEN column_name_mapping[columns[i]]
                        ELSE columns[i]]
        final == recursive_column_mapping(unmatched_columns, existing_mapping, widgets,
                     [df_columns |-> renamed,
                      column_mapping |-> session_mapping,
                      remaining |-> Remaining(required_columns_of(revreport_df),
                                              matched_required_columns),
                      offered |-> <<>>])
    IN  [df_columns |-> final.df_columns,
         unmatched_columns |-> unmatched_columns,
         column_name_mapping |-> column_name_mapping,
         column_mapping |-> final.column_mapping,
         offered |-> final.offered,
         matched_required_columns |-> matched_required_columns,
         remaining_required_columns |-> final.remaining]

(***************************************************************************)
(* save_to_db and create_streamlit_app (db_table.py)                       *)
(* The script runs from top to bottom on every interaction.  save_to_db    *)
(* runs one INSERT ... ON CONFLICT statement per row of column_mapping in  *)
(* one transaction and commits after the last; another session of the     *)
(* form may commit between two statements.                                 *)
(***************************************************************************)
Keys(rows) ==
    {rows[i].report_columns : i \in DOMAIN rows}

\* a bug the statement could have: a plain INSERT, a second row for the key
InsertOnly(rows, original_col, mapped_col) ==
    Append(rows, [report_columns |-> original_col, required_columns |-> mapped_col])

\* a bug the statement could have: ON CONFLICT DO NOTHING, the first write stays
DoNothingOnConflict(rows, original_col, mapped_col) ==
    IF original_col \in Keys(rows)
    THEN rows
    ELSE Append(rows, [report_columns |-> original_col, required_columns |-> mapped_col])

\* INSERT INTO RevReport ... ON CONFLICT (report_columns) DO UPDATE
\* SET required_columns = EXCLUDED.required_columns
Upsert(rows, original_col, mapped_col) ==
    IF original_col \in Keys(rows)
    THEN [i \in DOMAIN rows |->
             IF rows[i].report_columns = original_col
             THEN [rows[i] EXCEPT !.required_columns = mapped_col]
             ELSE rows[i]]
    ELSE Append(rows, [report_columns |-> original_col, required_columns |-> mapped_col])

RECURSIVE ApplyWrites(_, _)
\* conn.commit(): the transaction's statements take effect, in their order
ApplyWrites(rows, writes) ==
    IF writes = <<>> THEN rows
    ELSE ApplyWrites(Upsert(rows, Head(writes).report_columns,
                            Head(writes).required_columns),
                     Tail(writes))

\* a bug the flag could have: every returned row counts as inserted
InsertedAlways(rows, writes, original_col) ==
    TRUE

\* RETURNING (xmax = 0): the statement inserted the row it returns
Inserted(rows, writes, original_col) ==
    original_col \notin Keys(rows) \cup Keys(writes)

MonthOfReport ==
    <<"M","o","n","t","h"," ","o","f"," ","R","e","p","o","r","t">>

Country ==
    <<"C","o","u","n","t","r","y">>

COUNTRY ==
    <<"C","O","U","N","T","R","Y">>

ProductName ==
    <<"P","r","o","d","u","c","t"," ","N","a","m","e">>

month ==
    <<"m","o","n","t","h">>

XYZ ==
    <<"X","Y","Z">>

ABC ==
    <<"A","B","C">>

eMonth ==
    <<"e","M","o","n","t","h">>

country ==
    <<"c","o","u","n","t","r","y">>

targetingProduct ==
    <<"t","a","r","g","e","t","i","n","g","P","r","o","d","u","c","t">>

Row(source, canonical) ==
    [report_columns |-> source, required_columns |-> canonical]

\* the contents of RevReport when the session starts: empty, one row per
\* canonical name, several aliases of one canonical name
InitStores ==
    {<<>>,
     <<Row(MonthOfReport, eMonth), Row(Country, country),
       Row(ProductName, targetingProduct)>>,
     <<Row(MonthOfReport, eMonth), Row(month, eMonth), Row(Country, country)>>}

\* the header rows of the files the user may upload
Files ==
    {<<MonthOfReport, Country, XYZ>>, <<Country, COUNTRY>>, <<XYZ, ABC>>}

\* what another session of the form may save
OtherKeys ==
    {XYZ}

OtherNames ==
    {eMonth, country}

\* one run of create_streamlit_app after the uploader: the session's
\* column_mapping, what is displayed, and the widget values the framework keeps
Script(revreport_df, file, widgets, session_mapping) ==
    IF ~file.present
    THEN [column_mapping |-> session_mapping, run |-> NoRun, widget |-> <<>>]
    ELSE IF revreport_df = <<>>
         THEN [column_mapping |-> <<>>, run |-> NoRun, widget |-> <<>>]
         ELSE LET m == map_columns(file.columns, revreport_df, <<>>, widgets)
              IN  [column_mapping |-> m.column_mapping,
                   run |-> [shown |-> TRUE,
                            revreport_df |-> revreport_df,
                            df_columns |-> m.df_columns,
                            unmatched_columns |-> m.unmatched_columns,
                            column_name_mapping |-> m.column_name_mapping,
                            offered |-> m.offered],
                   widget |-> [c \in {m.offered[k].column : k \in DOMAIN m.offered} |->
                                  m.offered[CHOOSE k \in DOMAIN m.offered :
                                                m.offered[k].column = c].value]]

Rerun(file, widgets) ==
    LET r == Script(store, file, widgets, column_mapping)
    IN  /\ uploaded' = file
        /\ column_mapping' = r.column_mapping
        /\ run' = r.run
        /\ widget' = r.widget

Init ==
    /\ store \in InitStores
    /\ SessionStart
    /\ call = [fn |-> "none"]

\* the user puts a file in the uploader
UploadFile(f) ==
    /\ ~txn.open
    /\ uploaded # [present |-> TRUE, columns |-> f]
    /\ Rerun([present |-> TRUE, columns |-> f], widget)
    /\ notice' = NoNotice
    /\ UNCHANGED <<store, txn, call>>

\* the user removes the file from the uploader
RemoveFile ==
    /\ ~txn.open
    /\ uploaded.present
    /\ Rerun(NoFile, widget)
    /\ notice' = NoNotice
    /\ UNCHANGED <<store, txn, call>>

\* a bug the form could have: a selection is saved at once
SelectSaving(k, v) ==
    /\ ~txn.open
    /\ k \in DOMAIN run.offered
    /\ v \in Range(run.offered[k].options)
    /\ v # run.offered[k].value
    /\ Rerun(uploaded, [c \in DOMAIN widget \cup {run.offered[k].column} |->
                           IF c = run.offered[k].column THEN v ELSE widget[c]])
    /\ notice' = NoNotice
    /\ store' = IF v = Empty THEN store ELSE Upsert(store, run.offered[k].column, v)
    /\ UNCHANGED <<txn, call>>

\* the user changes the value of a dropdown on the page
Select(k, v) ==
    /\ ~txn.open
    /\ k \in DOMAIN run.offered
    /\ v \in Range(run.offered[k].options)
    /\ v # run.offered[k].value
    /\ Rerun(uploaded, [c \in DOMAIN widget \cup {run.offered[k].column} |->
                           IF c = run.offered[k].column THEN v ELSE widget[c]])
    /\ notice' = NoNotice
    /\ UNCHANGED <<store, txn, call>>

\* the user clicks "Submit Mapping": the script runs again and, after
\* map_columns, enters save_to_db
ClickSubmit ==
    /\ ~txn.open
    /\ run.shown
    /\ Rerun(uploaded, widget)
    /\ txn' = [open |-> TRUE, i |-> 1, writes |-> <<>>, new_columns_added |-> FALSE]
    /\ notice' = NoNotice
    /\ UNCHANGED <<store, call>>

\* save_to_db: cur.execute for the next row of column_mapping
ExecuteUpsert ==
    /\ txn.open
    /\ txn.i <= Len(column_mapping)
    /\ LET row == column_mapping[txn.i]
       IN  txn' = [txn EXCEPT
                      !.i = @ + 1,
                      !.writes = Append(@, Row(row.original, row.mapped)),
                      !.new_columns_added =
                          @ \/ Inserted(store, txn.writes, row.original)]
    /\ UNCHANGED <<store, uploaded, widget, column_mapping, run, notice, call>>

\* save_to_db: conn.commit() and the feedback
Commit ==
    /\ txn.open
    /\ txn.i > Len(column_mapping)
    /\ store' = ApplyWrites(store, txn.writes)
    /\ notice' = [msg |-> IF txn.new_columns_added THEN "added" ELSE "updated",
                  saved |-> txn.writes, before |-> store, after |-> store']
    /\ txn' = NoTxn
    /\ UNCHANGED <<uploaded, widget, column_mapping, run, call>>

\* a bug save_to_db could have: a commit after every statement, so the
\* statements run before the failure stay in the store
SaveFailsAfterCommits ==
    /\ txn.open
    /\ store' = ApplyWrites(store, txn.writes)
    /\ notice' = [msg |-> "error", saved |-> txn.writes, before |-> store,
                  after |-> store']
    /\ txn' = NoTxn
    /\ UNCHANGED <<uploaded, widget, column_mapping, run, call>>

\* save_to_db: a statement or the commit raises; nothing is committed
SaveFails ==
    /\ txn.open
    /\ notice' = [msg |-> "error", saved |-> txn.writes, before |-> store,
                  after |-> store]
    /\ txn' = NoTxn
    /\ UNCHANGED <<store, uploaded, widget, column_mapping, run, call>>

\* another session's save_to_db commits one pair; it waits while this
\* session's open transaction holds the key
OtherSessionSaves(k, v) ==
    /\ k \notin Keys(txn.writes)
    /\ Row(k, v) \notin Range(store)
    /\ store' = Upsert(store, k, v)
    /\ UNCHANGED <<uploaded, widget, column_mapping, run, txn, notice, call>>

Next ==
    \/ \E f \in Files : UploadFile(f)
    \/ RemoveFile
    \/ \E k \in DOMAIN run.offered : \E v \in Range(run.offered[k].options) : Select(k, v)
    \/ ClickSubmit
    \/ ExecuteUpsert
    \/ Commit
    \/ SaveFails
    \/ \E k \in OtherKeys, v \in OtherNames : OtherSessionSaves(k, v)

Spec ==
    Init /\ [][Next]_vars

\* the canonical name the last pass gave an uploaded column: by the first pass
\* or by the resolver (<<>> when it gave none)
AssignedName(col) ==
    IF col \in DOMAIN run.column_name_mapping
    THEN run.column_name_mapping[col]
    ELSE IF \E i \in DOMAIN column_mapping : column_mapping[i].original = col
         THEN column_mapping[CHOOSE i \in DOMAIN column_mapping :
                                 column_mapping[i].original = col].mapped
         ELSE Empty

\* C1: in one pass of map_columns no canonical name is assigned to two
\* different uploaded columns.
C1_NoNameAssignedTwice ==
    run.shown =>
        \A i, j \in DOMAIN uploaded.columns :
            (i # j /\ AssignedName(uploaded.columns[i]) # Empty) =>
                AssignedName(uploaded.columns[i]) # AssignedName(uploaded.columns[j])

\* the canonical names claimed before dropdown k is offered: by the first pass
\* or by the choice made in an earlier dropdown
ClaimedBefore(k) ==
    {run.column_name_mapping[c] : c \in DOMAIN run.column_name_mapping}
        \cup {run.offered[j].value : j \in 1..(k - 1)}

\* C2: a canonical name claimed earlier in the pass never appears among the
\* options of a later dropdown.
C2_ClaimedNameNotOffered ==
    run.shown =>
        \A k \in DOMAIN run.offered :
            \A n \in Range(run.offered[k].options) :
                n # Empty => n \notin ClaimedBefore(k)

UniqueKeys(rows) ==
    \A i, j \in DOMAIN rows : rows[i].report_columns = rows[j].report_columns => i = j

RowsOf(rows, key) ==
    SelectSeq(rows, LAMBDA r : r.report_columns = key)

\* the last value save_to_db wrote for the key
LastSaved(key) ==
    RowsOf(notice.saved, key)[Len(RowsOf(notice.saved, key))].required_columns

Committed ==
    notice.msg \in {"added", "updated"}

\* C4: the store never holds two rows for one source key; a committed
\* save_to_db leaves, for every pair it upserted, exactly one row of that
\* source holding the canonical name written, in the place of the row that
\* was there before if there was one, and leaves every other row as it was.
C4_UpsertKeepsOneRowPerKey ==
    /\ UniqueKeys(store)
    /\ Committed =>
           /\ UniqueKeys(notice.after)
           /\ \A w \in DOMAIN notice.saved :
                  LET key == notice.saved[w].report_columns
                  IN  RowsOf(notice.after, key) = <<Row(key, LastSaved(key))>>
           /\ \A i \in DOMAIN notice.before :
                  /\ i \in DOMAIN notice.after
                  /\ notice.after[i].report_columns = notice.before[i].report_columns
                  /\ notice.before[i].report_columns \notin Keys(notice.saved) =>
                         notice.after[i] = notice.before[i]
           /\ Keys(notice.after) = Keys(notice.before) \cup Keys(notice.saved)

\* a committed upsert found its source stored under another canonical name and
\* changed that row
C4_Witness ==
    /\ Committed
    /\ Len(notice.saved) = 1
    /\ Len(notice.after) = Len(notice.before)
    /\ \E i \in DOMAIN notice.before :
           /\ notice.before[i].report_columns = notice.saved[1].report_columns
           /\ notice.before[i].required_columns # notice.saved[1].required_columns
           /\ notice.after[i] = notice.saved[1]

\* C5: a committed save_to_db reports "new column mappings added" exactly when
\* one of its upserts created a row whose source was not in the store, and
\* "existing mappings updated" otherwise; a failed one reports the error and
\* creates nothing.
C5_NoticeTellsNewRows ==
    /\ Committed =>
           (notice.msg = "added" <=> Keys(notice.after) \ Keys(notice.before) # {})
    /\ notice.msg = "updated" => Keys(notice.after) = Keys(notice.before)
    /\ notice.msg = "error" => notice.after = notice.before

\* a save that wrote a pair and created no row reports "updated"
C5_Witness ==
    /\ notice.msg = "updated"
    /\ notice.saved # <<>>
    /\ Keys(notice.saved) \subseteq Keys(notice.before)

\* the scenario of C10: the file's columns, read against a store that maps
\* "Month of Report" to eMonth and "Country" to country and has no entry for
\* "XYZ"
Scenario ==
    /\ run.shown
    /\ uploaded.columns = <<MonthOfReport, Country, XYZ>>
    /\ Row(MonthOfReport, eMonth) \in Range(run.revreport_df)
    /\ Row(Country, country) \in Range(run.revreport_df)
    /\ \A i \in DOMAIN run.revreport_df :
           Lower(run.revreport_df[i].report_columns) # Lower(XYZ)

\* the canonical name picked for "XYZ" in the last run (<<>> when none)
Picked ==
    IF run.offered # <<>> THEN run.offered[1].value ELSE Empty

FirstPassOfScenario ==
    /\ DOMAIN run.column_name_mapping = {MonthOfReport, Country}
    /\ run.column_name_mapping[MonthOfReport] = eMonth
    /\ run.column_name_mapping[Country] = country
    /\ run.unmatched_columns = <<XYZ>>

\* confirming created exactly one row if and only if "XYZ" was not stored
OneNewRowIfNotStored ==
    (Committed /\ Picked # Empty) =>
        /\ Cardinality(Keys(notice.after) \ Keys(notice.before)) \in {0, 1}
        /\ Len(notice.after) - Len(notice.before) =
               IF XYZ \in Keys(notice.before) THEN 0 ELSE 1
        /\ Row(XYZ, Picked) \in Range(notice.after)

\* C10 as stated: after the user's pick the rename map returned by the
\* reconciler contains all three entries.
C10_ReturnedMapHasAllThree ==
    Scenario =>
        /\ \A c \in {MonthOfReport, Country} :
               c \in DOMAIN run.column_name_mapping
        /\ run.unmatched_columns = <<XYZ>>
        /\ Picked # Empty =>
               /\ DOMAIN run.column_name_mapping = {MonthOfReport, Country, XYZ}
               /\ run.column_name_mapping[XYZ] = Picked
        /\ OneNewRowIfNotStored

\* C10 amended: the reconciler returns matched = {"Month of Report": eMonth,
\* "Country": country} and unmatched = ["XYZ"]; after the user's pick the
\* returned rename map still holds these two entries only, the third entry
\* ("XYZ", pick) is the one row of the session's column_mapping and all three
\* columns of the table are renamed; a confirmed save that commits creates
\* exactly one store row if and only if "XYZ" was not stored when it ran.
C10_EndToEnd ==
    Scenario =>
        /\ FirstPassOfScenario
        /\ Picked # Empty =>
               /\ column_mapping = <<[original |-> XYZ, mapped |-> Picked]>>
               /\ run.df_columns = <<eMonth, country, Picked>>
        /\ Picked = Empty =>
               /\ column_mapping = <<>>
               /\ run.df_columns = <<eMonth, country, XYZ>>
        /\ OneNewRowIfNotStored

C10_Witness ==
    /\ Scenario
    /\ Picked = targetingProduct
    /\ notice.msg = "added"
    /\ notice.after = Append(notice.before, Row(XYZ, targetingProduct))
    /\ run.df_columns = <<eMonth, country, targetingProduct>>

(***************************************************************************)
(* map_columns on its own (db_table.py): any file header, any store        *)
(* content, any session column_mapping and any kept dropdown values        *)
(***************************************************************************)
MaxColumns == 2

ColumnNames ==
    {MonthOfReport, Country, COUNTRY, XYZ, ABC}

\* the headers: every order of up to MaxColumns different names
Headers ==
    {h \in SeqsOf(ColumnNames, 1, MaxColumns) :
        \A i, j \in DOMAIN h : h[i] = h[j] => i = j}

\* store contents, one row per key: keys that differ only in letter case,
\* one key per canonical name, two aliases of one canonical name
MapStores ==
    {<<Row(Country, country), Row(COUNTRY, targetingProduct)>>,
     <<Row(MonthOfReport, eMonth), Row(Country, country),
       Row(ProductName, targetingProduct)>>,
     <<Row(MonthOfReport, eMonth), Row(month, eMonth), Row(COUNTRY, country)>>}

SessionMappings ==
    {<<>>,
     <<[original |-> XYZ, mapped |-> eMonth]>>,
     <<[original |-> Country, mapped |-> targetingProduct],
       [original |-> XYZ, mapped |-> country]>>}

\* the values the framework keeps for the two dropdowns
KeptWidgets ==
    [{XYZ, ABC} -> {Empty, eMonth, country, targetingProduct}]

NoMapping ==
    [df_columns |-> <<>>, unmatched_columns |-> <<>>, column_name_mapping |-> <<>>,
     column_mapping |-> <<>>, offered |-> <<>>, matched_required_columns |-> <<>>,
     remaining_required_columns |-> <<>>]

InitMapColumns ==
    /\ AppIdle
    /\ call \in {[fn |-> "map_columns",
                  arg |-> [columns |-> h, revreport_df |-> r,
                           session_mapping |-> m, widgets |-> w],
                  done |-> FALSE, result |-> NoMapping] :
                 h \in Headers, r \in MapStores, m \in SessionMappings,
                 w \in KeptWidgets}

CallMapColumns ==
    /\ call.fn = "map_columns"
    /\ ~call.done
    /\ call' = [call EXCEPT !.done = TRUE,
                            !.result = map_columns(call.arg.columns,
                                                   call.arg.revreport_df,
                                                   call.arg.session_mapping,
                                                   call.arg.widgets)]
    /\ UNCHANGED appVars

NextMapColumns ==
    CallMapColumns

SpecMapColumns ==
    InitMapColumns /\ [][NextMapColumns]_vars

MapColumnsDone ==
    call.fn = "map_columns" /\ call.done

\* the canonical name map_columns gave the column in its first pass (<<>> when
\* it gave none)
FirstPassName(col) ==
    IF col \in DOMAIN call.result.column_name_mapping
    THEN call.result.column_name_mapping[col]
    ELSE Empty

\* the canonical name recorded for exactly this name: by the session's
\* column_mapping or else by the store row keyed by the name
Recorded(col) ==
    LET em == existing_mapping_of(call.arg.session_mapping)
    IN  IF col \in DOMAIN em THEN em[col]
        ELSE RowsOf(call.arg.revreport_df, col)[1].required_columns

HasPriorResolution(col) ==
    \/ col \in DOMAIN existing_mapping_of(call.arg.session_mapping)
    \/ col \in Keys(call.arg.revreport_df)

\* C11: every uploaded column whose exact name has an entry in the session's
\* column_mapping or a row in the store is given the canonical name recorded
\* for that name, and that name is counted as claimed, whatever the store
\* holds (keys differing only in letter case included).
C11_PriorResolutionReused ==
    MapColumnsDone =>
        \A i \in DOMAIN call.arg.columns :
            LET col == call.arg.columns[i]
            IN  HasPriorResolution(col) =>
                    /\ FirstPassName(col) = Recorded(col)
                    /\ call.result.df_columns[i] = Recorded(col)
                    /\ Recorded(col) \in Range(call.result.matched_required_columns)

(***************************************************************************)
(* The session's column_mapping across the interactions of the form        *)
(***************************************************************************)
\* every entry of the earlier column_mapping is still there, in its place
KeepsEntries(earlier, later) ==
    \A i \in DOMAIN earlier : i \in DOMAIN later /\ later[i] = earlier[i]

\* C12: while the same file stays in the uploader no step removes or alters an
\* entry of the session's column_mapping, and column_mapping becomes empty
\* only in a step that puts a new file in the uploader.
C12_ColumnMappingOnlyGrows ==
    [][/\ (uploaded.present /\ uploaded' = uploaded) =>
              KeepsEntries(column_mapping, column_mapping')
       /\ (column_mapping # <<>> /\ column_mapping' = <<>>) =>
              (uploaded'.present /\ uploaded' # uploaded)]_vars

(***************************************************************************)
(* The revenue report uploader (report.py)                                 *)
(* store holds the rows of the table report_columns (report_column_name    *)
(* is its primary key; insert_ts and excel_format play no part below).     *)
(* A file is its header and the values of its month column, each value by  *)
(* its type; the other columns hold well-formed values.  None is a file    *)
(* that is not present.                                                    *)
(***************************************************************************)
impressions ==
    <<"i","m","p","r","e","s","s","i","o","n","s">>

segId ==
    <<"s","e","g","I","d">>

dspOriginal ==
    <<"d","s","p","O","r","i","g","i","n","a","l">>

agencyOriginal ==
    <<"a","g","e","n","c","y","O","r","i","g","i","n","a","l">>

Month ==
    <<"M","o","n","t","h">>

Mon ==
    <<"M","o","n">>

ReportRow(newcol, reqcol) ==
    [report_column_name |-> newcol, required_column_name |-> reqcol]

ReportKeys(rows) ==
    {rows[i].report_column_name : i \in DOMAIN rows}

None ==
    [present |-> FALSE, header |-> <<>>, months |-> <<>>]

RECURSIVE RenameAll(_, _)
\* the loop of df.rename over the rows of db, in their order
RenameAll(df_columns, db) ==
    IF db = <<>> THEN df_columns
    ELSE RenameAll(RenameColumn(df_columns, Head(db).report_column_name,
                                Head(db).required_column_name),
                   Tail(db))

\* the columns the function reads, in the order in which a missing one raises
\* KeyError out of the outer try: eMonth is first read inside the inner try,
\* whose handler swallows the KeyError, and read again at the eDate line
ReadOrder ==
    <<impressions, segId, dspOriginal, agencyOriginal, eMonth>>

\* f"{e}" of a KeyError: the name between quotes
KeyErrorText(name) ==
    <<"'">> \o name \o <<"'">>

\* change[1:len(change) - 1]
formatting_text(change) ==
    SubSeq(change, 2, Len(change) - 1)

\* isinstance(val, datetime.datetime)
IsDatetime(val) ==
    val = "datetime"

\* the loop over df['eMonth'] and df['eMonth'].apply(adsq_time) inside the
\* inner try: a value without strftime raises, the handler prints, and the
\* column is left as it was
ConvertedMonths(months) ==
    IF \A i \in DOMAIN months : IsDatetime(months[i])
    THEN [i \in DOMAIN months |-> "YYYY-MM"]
    ELSE months

\* val + "-1" is defined for text only
IsText(val) ==
    val \in {"str", "YYYY-MM"}

\* adsq_rename_and_modify_columns(df) with the module's db: it returns
\* (columns, df, 0), (columns, None, err) or, after an exception other than
\* KeyError, None; with an empty db the name columns is unbound and the
\* return statement itself raises
adsq_rename_and_modify_columns(df, db) ==
    LET columns == RenameAll(df.header, db)
        absent == SelectSeq(ReadOrder, LAMBDA c : c \notin Range(columns))
        reached == {impressions, segId, eMonth} \subseteq Range(columns)
        nondate == {i \in DOMAIN df.months : ~IsDatetime(df.months[i])}
        flagged == IF reached /\ nondate # {}
                   THEN CHOOSE i \in nondate : \A j \in nondate : i <= j
                   ELSE 0
        months == ConvertedMonths(df.months)
        nothing == [returned |-> "None", columns |-> <<>>, change |-> <<>>,
                    flagged |-> flagged, annotated |-> FALSE,
                    eMonth |-> <<>>, eDate |-> <<>>]
    IN  IF absent # <<>>
        THEN IF db = <<>>
             THEN [nothing EXCEPT !.returned = "raised", !.annotated = TRUE]
             ELSE [nothing EXCEPT !.returned = "missing", !.columns = columns,
                                  !.change = KeyErrorText(absent[1]),
                                  !.annotated = TRUE]
        ELSE IF (\E i \in DOMAIN months : ~IsText(months[i])) \/ db = <<>>
             THEN nothing
             ELSE [nothing EXCEPT !.returned = "table", !.columns = columns,
                                  !.eMonth = months,
                                  !.eDate = [i \in DOMAIN months |-> <<months[i], "-1">>]]

NoInsert ==
    [wanted |-> FALSE, newcol |-> <<>>, reqcol |-> <<>>]

\* what one call of the handler leaves on the page
NoPage ==
    [message |-> "none", flagged |-> 0, annotated |-> FALSE, parsed |-> 0,
     options |-> <<>>, eMonth |-> <<>>, eDate |-> <<>>, insert |-> NoInsert]

\* displaying_and_handling_file(file) up to the call of insert_data: pd.read_excel
\* raises on None, every exception is printed and nothing more is displayed
displaying_and_handling_file(file, db, option, add) ==
    IF ~file.present
    THEN [NoPage EXCEPT !.parsed = 1]
    ELSE LET r == adsq_rename_and_modify_columns(file, db)
             shown == [NoPage EXCEPT !.parsed = 1, !.flagged = r.flagged,
                                     !.annotated = r.annotated]
         IN  IF r.returned = "table"
             THEN [shown EXCEPT !.message = "File Fetched Successfully!",
                                !.eMonth = r.eMonth, !.eDate = r.eDate]
             ELSE IF r.returned = "missing"
                  THEN LET change == formatting_text(r.change)
                           picked == selectbox(r.columns, "Select Column Name",
                                               [k \in {"Select Column Name"} |-> option])
                       IN  [shown EXCEPT
                               !.message = "Select Column Name",
                               !.options = r.columns,
                               !.insert = IF add
                                          THEN [wanted |-> TRUE, newcol |-> picked,
                                                reqcol |-> change]
                                          ELSE NoInsert]
                  ELSE shown

\* a bug the form could have: the uploaded file is handled although a URL is
\* given too
OnlyFileOrBoth(uploaded_file, file_url) ==
    uploaded_file.present

\* if uploaded_file and not file_url
OnlyFile(uploaded_file, file_url) ==
    uploaded_file.present /\ file_url = ""

\* if not uploaded_file and file_url
OnlyUrl(uploaded_file, file_url) ==
    ~uploaded_file.present /\ file_url # ""

\* if uploaded_file and file_url
Both(uploaded_file, file_url) ==
    uploaded_file.present /\ file_url # ""

\* one run of st_fragment up to the call of insert_data.  response is what
\* requests.get would answer: a file, or None for a RequestException, after
\* which fetch_file_from_url shows the error and returns None
st_fragment(uploaded_file, file_url, response, db, option, add) ==
    LET fetched == OnlyUrl(uploaded_file, file_url)
        handled == (IF OnlyFile(uploaded_file, file_url) THEN <<uploaded_file>> ELSE <<>>)
                       \o (IF fetched THEN <<response>> ELSE <<>>)
        page == IF handled = <<>> THEN NoPage
                ELSE displaying_and_handling_file(handled[Len(handled)], db, option, add)
    IN  [fetches |-> IF fetched THEN 1 ELSE 0,
         fetch_error |-> fetched /\ ~response.present,
         handled |-> handled,
         parsed |-> IF Len(handled) = 2
                    THEN page.parsed
                             + displaying_and_handling_file(handled[1], db, option, add).parsed
                    ELSE page.parsed,
         both_error |-> Both(uploaded_file, file_url),
         page |-> page,
         db |-> db,
         inserted |-> "none"]

MaxReportRows == 2

MonthValues ==
    {"datetime", "str", "number"}

ReportHeaders ==
    {<<impressions, segId, Month, dspOriginal, agencyOriginal>>,
     <<impressions, segId, Mon, dspOriginal, agencyOriginal>>}

ReportFiles ==
    [present : {TRUE}, header : ReportHeaders,
     months : SeqsOf(MonthValues, 0, MaxReportRows)]

\* the rows of report_columns when the script starts
ReportStores ==
    {<<>>, <<ReportRow(Month, eMonth)>>}

\* what the user may have picked in "Select Column Name"
OptionPool ==
    {Mon, segId}

\* what another session may add to report_columns
OtherReportRows ==
    {ReportRow(Mon, eMonth), ReportRow(Mon, country)}

NoResult ==
    [fetches |-> 0, fetch_error |-> FALSE, handled |-> <<>>, parsed |-> 0,
     both_error |-> FALSE, page |-> NoPage, db |-> <<>>, inserted |-> "none"]

InitReport ==
    /\ store \in ReportStores
    /\ SessionStart
    /\ call \in {[fn |-> "st_fragment", pc |-> "start",
                  arg |-> [uploaded_file |-> u, file_url |-> url, response |-> r,
                           option |-> o, add |-> a],
                  result |-> NoResult] :
                 u \in ReportFiles \cup {None}, url \in {"", "url"},
                 r \in ReportFiles \cup {None}, o \in OptionPool, a \in BOOLEAN}
    /\ OnlyUrl(call.arg.uploaded_file, call.arg.file_url) \/ ~call.arg.response.present

\* the script runs: db is read, st_fragment runs; it stops before insert_data
\* if "Add" was clicked, else at its end
RunFragment ==
    /\ call.fn = "st_fragment"
    /\ call.pc = "start"
    /\ LET r == st_fragment(call.arg.uploaded_file, call.arg.file_url,
                            call.arg.response, store, call.arg.option, call.arg.add)
       IN  call' = [call EXCEPT !.result = r,
                                !.pc = IF r.page.insert.wanted THEN "insert" ELSE "done"]
    /\ UNCHANGED appVars

\* insert_data(option, change, format): a plain INSERT and a commit.  A key
\* that is in the table violates the primary key: session.execute raises, the
\* handler of displaying_and_handling_file prints it and the run ends.
\* After the commit the caption is shown and st.rerun() starts the script
\* again, "Add" no longer clicked.
InsertData ==
    /\ call.fn = "st_fragment"
    /\ call.pc = "insert"
    /\ LET ins == call.result.page.insert
       IN  IF ins.newcol \in ReportKeys(store)
           THEN /\ call' = [call EXCEPT !.pc = "done", !.result.inserted = "failed"]
                /\ UNCHANGED store
           ELSE /\ store' = Append(store, ReportRow(ins.newcol, ins.reqcol))
                /\ call' = [call EXCEPT !.pc = "start", !.arg.add = FALSE,
                                        !.result.inserted = "inserted"]
    /\ UNCHANGED <<uploaded, widget, column_mapping, run, txn, notice>>

\* another session of the uploader adds a row
OtherReportInsert(row) ==
    /\ call.fn = "st_fragment"
    /\ row.report_column_name \notin ReportKeys(store)
    /\ store' = Append(store, row)
    /\ UNCHANGED <<uploaded, widget, column_mapping, run, txn, notice, call>>

NextReport ==
    \/ RunFragment
    \/ InsertData
    \/ \E row \in OtherReportRows : OtherReportInsert(row)

SpecReport ==
    InitReport /\ [][NextReport]_vars

FragmentRan ==
    call.fn = "st_fragment" /\ call.pc # "start"

\* the handler was given a file in which, after the renames of db, every
\* column the function reads is present and a value of eMonth is not a date
ParsedNonDate ==
    /\ FragmentRan
    /\ Len(call.result.handled) = 1
    /\ call.result.handled[1].present
    /\ Range(ReadOrder) \subseteq
           Range(RenameAll(call.result.handled[1].header, call.result.db))
    /\ \E i \in DOMAIN call.result.handled[1].months :
           ~IsDatetime(call.result.handled[1].months[i])

\* C13: when a value of eMonth is not a date the value is flagged and the flow
\* stops: no table is returned or displayed as fetched, and no field is
\* derived from the value.
C13_NonDateStopsFlow ==
    ParsedNonDate =>
        /\ call.result.page.flagged # 0
        /\ call.result.page.message # "File Fetched Successfully!"
        /\ call.result.page.eMonth = <<>>
        /\ call.result.page.eDate = <<>>

\* C14: with a file and a URL the error is shown, the handler is not called
\* and nothing is fetched; with a file only the handler is called once, on the
\* file, and nothing is fetched; with a URL only there is one fetch and the
\* handler is called once, on what the fetch returned; with neither nothing
\* is done.
C14_OneInputOneHandling ==
    FragmentRan =>
        LET u == call.arg.uploaded_file
            url == call.arg.file_url
            r == call.result
        IN  /\ r.both_error <=> (u.present /\ url # "")
            /\ (u.present /\ url # "") =>
                   (r.handled = <<>> /\ r.fetches = 0 /\ r.parsed = 0 /\ r.page = NoPage)
            /\ (u.present /\ url = "") =>
                   (r.handled = <<u>> /\ r.fetches = 0)
            /\ (~u.present /\ url # "") =>
                   (r.handled = <<call.arg.response>> /\ r.fetches = 1)
            /\ (~u.present /\ url = "") =>
                   (r.handled = <<>> /\ r.fetches = 0 /\ r.parsed = 0 /\ r.page = NoPage)

\* a file and a URL were given: the error is on the page and nothing else
C14_Witness ==
    /\ FragmentRan
    /\ call.arg.uploaded_file.present
    /\ call.arg.uploaded_file.months # <<>>
    /\ call.arg.file_url = "url"
    /\ call.result.both_error
    /\ call.result.handled = <<>>

\* C15: when the fetch fails the error is reported and the run does nothing
\* more with the file: the handler is not called and nothing is parsed.
C15_FailedFetchAborts ==
    (FragmentRan /\ call.result.fetches = 1 /\ ~call.arg.response.present) =>
        /\ call.result.fetch_error
        /\ call.result.handled = <<>>
        /\ call.result.parsed = 0

\* C18: insert_data on a source name that is a key of the table does not
\* fail and leaves one row of that key, holding the canonical name given.
C18_InsertUpdatesExistingKey ==
    (call.fn = "st_fragment" /\ call.result.inserted # "none") =>
        LET ins == call.result.page.insert
        IN  /\ call.result.inserted = "inserted"
            /\ SelectSeq(store, LAMBDA row : row.report_column_name = ins.newcol)
                   = <<ReportRow(ins.newcol, ins.reqcol)>>

(***************************************************************************)
(* What changes the mapping store (db_table.py)                            *)
(***************************************************************************)
\* C16: the store changes only in the step that commits the save_to_db begun
\* by a click on "Submit Mapping", or by the save of another session; a step
\* that uploads or removes a file, runs the first pass or changes a dropdown
\* leaves the store as it was.
C16_StoreChangesOnlyOnConfirm ==
    [][store' # store =>
           \/ /\ txn.open
              /\ run.shown
              /\ ~txn'.open
              /\ notice'.msg \in {"added", "updated"}
              /\ store' = ApplyWrites(store, txn.writes)
           \/ UNCHANGED <<uploaded, widget, column_mapping, run, txn, notice>>]_vars

\* a click on "Submit Mapping" has been committed and added a row to the store
C16_Witness ==
    /\ uploaded.present
    /\ notice.msg = "added"
    /\ store = notice.after
    /\ Len(notice.after) = Len(notice.before) + 1
    /\ column_mapping # <<>>

(***************************************************************************)
(* Two sessions saving the same source (db_table.py, save_to_db)           *)
(***************************************************************************)
\* the step applies the save of another session
OtherSessionWrote ==
    store' # store /\ txn' = txn

\* the step commits this session's save_to_db
ThisSessionCommitted ==
    txn.open /\ ~txn'.open /\ notice'.msg \in {"added", "updated"}

\* C17: whatever the other session wrote for a source and whenever it wrote
\* it, a save that commits leaves exactly one row of each source it wrote,
\* holding the canonical name it wrote, and so does the save of the other
\* session: the row of a source two sessions wrote holds the name of the save
\* applied last.
C17_LastAppliedWriteWins ==
    [][/\ ThisSessionCommitted =>
              \A w \in DOMAIN txn.writes :
                  LET key == txn.writes[w].report_columns
                      mine == RowsOf(txn.writes, key)
                  IN  RowsOf(store', key) =
                          <<Row(key, mine[Len(mine)].required_columns)>>
       /\ OtherSessionWrote =>
              \E k \in OtherKeys, v \in OtherNames :
                  /\ RowsOf(store', k) = <<Row(k, v)>>
                  /\ RowsOf(store, k) # <<Row(k, v)>>
                  /\ \A i \in DOMAIN store :
                         store[i].report_columns # k => store'[i] = store[i]
       /\ UniqueKeys(store')]_vars

\* both sessions saved "XYZ" under different names while this session's form
\* was open: the other session's row was not there when this session's click
\* read the store, was there when this session committed over it, and the
\* other session has since written the source again
C17_Witness ==
    /\ Committed
    /\ XYZ \in Keys(notice.saved)
    /\ XYZ \notin Keys(run.revreport_df)
    /\ \E i \in DOMAIN notice.before :
           /\ notice.before[i].report_columns = XYZ
           /\ notice.before[i].required_columns # LastSaved(XYZ)
           /\ notice.after[i] = Row(XYZ, LastSaved(XYZ))
           /\ store[i].report_columns = XYZ
           /\ store[i].required_columns # LastSaved(XYZ)

(***************************************************************************)
(* The resolver of map_columns, one unmatched column after the other       *)
(***************************************************************************)
\* the entries map_columns added to the session's column_mapping
Added ==
    SubSeq(call.result.column_mapping, Len(call.arg.session_mapping) + 1,
           Len(call.result.column_mapping))

\* the name the column at the place of col has in the DataFrame returned
NameInTable(col) ==
    call.result.df_columns[IndexOf(call.arg.columns, col)]

\* C19: the dropdowns are offered in the order of the unmatched columns, the
\* k-th only if every earlier one has a name selected; after a blank dropdown
\* no later unmatched column is offered, renamed or added to column_mapping.
C19_ResolutionIsSequential ==
    MapColumnsDone =>
        LET unmatched == call.result.unmatched_columns
            offered == call.result.offered
        IN  /\ Len(offered) <= Len(unmatched)
            /\ \A k \in DOMAIN offered :
                   /\ offered[k].column = unmatched[k]
                   /\ \A j \in 1..(k - 1) : offered[j].value # Empty
            /\ \A k \in DOMAIN unmatched :
                   (\E j \in 1..(k - 1) : j \in DOMAIN offered /\ offered[j].value = Empty) =>
                       /\ k \notin DOMAIN offered
                       /\ NameInTable(unmatched[k]) = unmatched[k]
                       /\ \A a \in DOMAIN Added : Added[a].original # unmatched[k]
            /\ \A k \in DOMAIN unmatched :
                   k \notin DOMAIN offered =>
                       \E j \in DOMAIN offered : offered[j].value = Empty

\* the first of two unmatched columns is left blank and the second, for which
\* the framework keeps a selected name, is not offered
C19_Witness ==
    /\ MapColumnsDone
    /\ Len(call.result.unmatched_columns) = MaxColumns
    /\ Len(call.result.offered) = 1
    /\ call.result.offered[1].value = Empty
    /\ call.arg.widgets[call.result.unmatched_columns[MaxColumns]] # Empty

\* C20: a dropdown with a name selected renames its column in the table and
\* appends (column, name) to column_mapping in that step, and the name leaves
\* the pool offered next; a dropdown left blank leaves its column under its
\* own name, adds nothing to column_mapping and leaves the pool as offered.
C20_PendingToResolved ==
    MapColumnsDone =>
        LET offered == call.result.offered
        IN  /\ Len(Added) = Cardinality({k \in DOMAIN offered : offered[k].value # Empty})
            /\ \A k \in DOMAIN offered :
                   LET col == offered[k].column
                       pool == Tail(offered[k].options)
                       left == IF k < Len(offered)
                               THEN Tail(offered[k + 1].options)
                               ELSE call.result.remaining_required_columns
                   IN  IF offered[k].value # Empty
                       THEN /\ NameInTable(col) = offered[k].value
                            /\ Added[k] = [original |-> col, mapped |-> offered[k].value]
                            /\ left = RemoveFirst(pool, offered[k].value)
                       ELSE /\ NameInTable(col) = col
                            /\ \A a \in DOMAIN Added : Added[a].original # col
                            /\ left = pool

\* one column was resolved and the next one left blank
C20_Witness ==
    /\ MapColumnsDone
    /\ Len(call.result.offered) = 2
    /\ call.result.offered[1].value # Empty
    /\ call.result.offered[2].value = Empty
    /\ Len(Added) = 1
    /\ call.arg.session_mapping = <<>>

(***************************************************************************)
(* The caller of find_data_start (db_table.py, create_streamlit_app; the   *)
(* same lines are in proj.py, project.py and test_conn.py)                 *)
(* pd.read_excel makes the first line of the sheet the column names; df    *)
(* is the lines under it.                                                  *)
(***************************************************************************)
\* start_row = find_data_start(df, standard_columns) and the lines under
\* `if start_row > 0`: df.iloc[start_row:], df.columns = df.iloc[0],
\* df.iloc[1:]
Reslice(columns, df, standard_columns) ==
    LET start_row == find_data_start(df, standard_columns)
    IN  IF start_row > 0
        THEN [columns |-> df[start_row + 1],
              df |-> SubSeq(df, start_row + 2, Len(df))]
        ELSE [columns |-> columns, df |-> df]

\* the column names read_excel takes from a first line that is a title
TitleLine(w) ==
    [i \in 1..w |-> <<"T","i","t","l","e">>]

InitReslice ==
    /\ AppIdle
    /\ call \in {[fn |-> "reslice",
                  arg |-> [columns |-> TitleLine(Len(g[1])), df |-> g,
                           standard_columns |-> a],
                  done |-> FALSE, result |-> [columns |-> <<>>, df |-> <<>>]] :
                 g \in Grids \ {<<>>}, a \in SeqsOf(AliasPool, 0, MaxAliases)}

CallReslice ==
    /\ call.fn = "reslice"
    /\ ~call.done
    /\ call' = [call EXCEPT !.done = TRUE,
                            !.result = Reslice(call.arg.columns, call.arg.df,
                                               call.arg.standard_columns)]
    /\ UNCHANGED appVars

NextReslice ==
    CallReslice

SpecReslice ==
    InitReslice /\ [][NextReslice]_vars

\* C21: when a row of the grid holds an alias, the first such row becomes the
\* column names and exactly the rows after it become the data, whichever row
\* it is (the first row of the grid included).
C21_LocatedRowBecomesHeader ==
    (call.fn = "reslice" /\ call.done) =>
        LET df == call.arg.df
            al == call.arg.standard_columns
            hits == {i \in DOMAIN df : Qualifies(df[i], al)}
        IN  hits # {} =>
                LET first == CHOOSE i \in hits : \A j \in hits : i <= j
                IN  /\ call.result.columns = df[first]
                    /\ call.result.df = SubSeq(df, first + 1, Len(df))

(***************************************************************************)
(* The form of proj.py (create_streamlit_app)                              *)
(* The script runs again on every interaction; st.button returns True only *)
(* in the run started by a click on that button, and a button can be       *)
(* clicked only if the last run rendered it.  store holds the tables       *)
(* appended to revenue_reports.                                            *)
(***************************************************************************)
SegmentID ==
    <<"S","e","g","m","e","n","t"," ","I","D">>

\* four of the entries of COLUMN_MAPPING
COLUMN_MAPPING ==
    [c \in {MonthOfReport, Country, ProductName, SegmentID} |->
        CASE c = MonthOfReport -> eMonth
          [] c = Country -> country
          [] c = ProductName -> targetingProduct
          [] c = SegmentID -> segId]

\* process_dataframe after the re-slicing: the exact matches, and for every
\* other column the targets no match has used
process_dataframe(columns) ==
    LET matched_columns ==
            [c \in Range(columns) \cap DOMAIN COLUMN_MAPPING |-> COLUMN_MAPPING[c]]
        used_target_columns == {matched_columns[c] : c \in DOMAIN matched_columns}
        remaining_targets ==
            {COLUMN_MAPPING[c] : c \in DOMAIN COLUMN_MAPPING} \ used_target_columns
    IN  [matched_columns |-> matched_columns,
         unmatched_columns |->
             [c \in Range(columns) \ DOMAIN matched_columns |-> remaining_targets]]

\* df.rename(columns=mappings)
RenameBy(columns, mappings) ==
    [i \in DOMAIN columns |->
        IF columns[i] \in DOMAIN mappings THEN mappings[columns[i]] ELSE columns[i]]

NoProjPage ==
    [shown |-> FALSE, matched_shown |-> FALSE, dropdowns |-> {},
     preview_button |-> FALSE, previewed |-> FALSE, processed_df |-> <<>>,
     save_button |-> FALSE, message |-> "none"]

\* one run of the script: what it renders and what it appends.  buttons are
\* the values the three st.button calls return in this run, widgets the
\* values kept for the dropdowns, to_sql the outcome the database would give
ProjScript(file, widgets, buttons, to_sql, revenue_reports) ==
    IF ~file.present
    THEN [page |-> NoProjPage, revenue_reports |-> revenue_reports]
    ELSE LET p == process_dataframe(file.columns)
             offered == {c \in DOMAIN p.unmatched_columns : p.unmatched_columns[c] # {}}
             final_mappings ==
                 [c \in DOMAIN p.matched_columns \cup offered |->
                     IF c \in offered THEN widgets[c] ELSE p.matched_columns[c]]
             processed_df == RenameBy(file.columns, final_mappings)
             preview == buttons.preview
             save == preview /\ buttons.save
         IN  [page |-> [shown |-> TRUE,
                        matched_shown |-> buttons.show,
                        dropdowns |-> offered,
                        preview_button |-> TRUE,
                        previewed |-> preview,
                        processed_df |-> IF preview THEN processed_df ELSE <<>>,
                        save_button |-> preview,
                        message |-> IF save /\ to_sql = "ok"
                                    THEN "Data successfully saved to database!"
                                    ELSE IF save /\ to_sql = "error"
                                         THEN "Error saving to database"
                                         ELSE "none"],
              revenue_reports |-> IF save /\ to_sql = "ok"
                                  THEN Append(revenue_reports, processed_df)
                                  ELSE revenue_reports]

NoButton ==
    [show |-> FALSE, preview |-> FALSE, save |-> FALSE]

ProjFiles ==
    {<<MonthOfReport, Country>>, <<MonthOfReport, XYZ>>, <<XYZ, ABC>>,
     <<Country, XYZ, ABC>>}

\* the outcomes of create_db_connection and to_sql
ToSqlOutcomes ==
    {"ok", "error", "no connection"}

\* the values the framework keeps for the dropdowns rendered for the file: a
\* kept value that is still an option, else any option as the first of
\* list(remaining_targets), a set turned into a list
KeptOrDefault(file, widgets) ==
    LET p == process_dataframe(file.columns)
        offered == {c \in DOMAIN p.unmatched_columns : p.unmatched_columns[c] # {}}
    IN  {w \in [offered -> {COLUMN_MAPPING[c] : c \in DOMAIN COLUMN_MAPPING}] :
            \A c \in offered :
                /\ w[c] \in p.unmatched_columns[c]
                /\ (c \in DOMAIN widgets /\ widgets[c] \in p.unmatched_columns[c]) =>
                       w[c] = widgets[c]}

ProjRerun(file, widgets, buttons, clicked) ==
    \E to_sql \in ToSqlOutcomes :
        LET r == ProjScript(file, widgets, buttons, to_sql, store)
        IN  /\ uploaded' = file
            /\ widget' = widgets
            /\ run' = r.page
            /\ store' = r.revenue_reports
            /\ call' = [fn |-> "proj", clicked |-> clicked]
            /\ UNCHANGED <<column_mapping, txn, notice>>

InitProj ==
    /\ store = <<>>
    /\ uploaded = NoFile
    /\ widget = <<>>
    /\ column_mapping = <<>>
    /\ txn = NoTxn
    /\ notice = NoNotice
    /\ run = NoProjPage
    /\ call = [fn |-> "proj", clicked |-> "none"]

\* the user puts a file in the uploader
ProjUpload(f) ==
    /\ call.fn = "proj"
    /\ uploaded # [present |-> TRUE, columns |-> f]
    /\ \E w \in KeptOrDefault([present |-> TRUE, columns |-> f], widget) :
           ProjRerun([present |-> TRUE, columns |-> f], w, NoButton, "upload")

\* the user changes a dropdown
ProjSelect(c, v) ==
    /\ call.fn = "proj"
    /\ c \in run.dropdowns
    /\ v \in process_dataframe(uploaded.columns).unmatched_columns[c]
    /\ v # widget[c]
    /\ ProjRerun(uploaded, [widget EXCEPT ![c] = v], NoButton, "select")

ClickShowMatched ==
    /\ call.fn = "proj"
    /\ run.shown
    /\ ProjRerun(uploaded, widget, [NoButton EXCEPT !.show = TRUE],
                 "Show Matched Columns")

ClickPreview ==
    /\ call.fn = "proj"
    /\ run.preview_button
    /\ ProjRerun(uploaded, widget, [NoButton EXCEPT !.preview = TRUE],
                 "Preview Processed Data")

ClickSave ==
    /\ call.fn = "proj"
    /\ run.save_button
    /\ ProjRerun(uploaded, widget, [NoButton EXCEPT !.save = TRUE],
                 "Save to Database")

NextProj ==
    \/ \E f \in ProjFiles : ProjUpload(f)
    \/ \E c \in run.dropdowns :
           \E v \in {COLUMN_MAPPING[k] : k \in DOMAIN COLUMN_MAPPING} : ProjSelect(c, v)
    \/ ClickShowMatched
    \/ ClickPreview
    \/ ClickSave

SpecProj ==
    InitProj /\ [][NextProj]_vars

\* C22: the run started by the click on "Save to Database", a button the
\* preview offered, appends the renamed table to revenue_reports.
C22_SaveClickAppends ==
    (call.fn = "proj" /\ call.clicked = "Save to Database") =>
        /\ store # <<>>
        /\ store[Len(store)] =
               RenameBy(uploaded.columns,
                        [c \in DOMAIN process_dataframe(uploaded.columns).matched_columns
                                   \cup DOMAIN widget |->
                            IF c \in DOMAIN widget THEN widget[c]
                            ELSE COLUMN_MAPPING[c]])

(***************************************************************************)
(* The first pass of map_columns                                           *)
(***************************************************************************)
\* C23: every uploaded column is a key of the returned rename map or an
\* element of the returned unmatched list, never both, and the unmatched list
\* is the uploaded columns that are not keys of the map, in their input order.
C23_FirstPassPartitions ==
    MapColumnsDone =>
        LET columns == call.arg.columns
            renamed == DOMAIN call.result.column_name_mapping
            unmatched == call.result.unmatched_columns
        IN  /\ renamed \cup Range(unmatched) = Range(columns)
            /\ renamed \cap Range(unmatched) = {}
            /\ unmatched = SelectSeq(columns, LAMBDA c : c \notin renamed)

\* a file with a column that only the session's column_mapping matches and a
\* column that nothing matches
C23_Witness ==
    /\ MapColumnsDone
    /\ call.result.unmatched_columns # <<>>
    /\ \E c \in DOMAIN call.result.column_name_mapping :
           /\ c \in DOMAIN existing_mapping_of(call.arg.session_mapping)
           /\ \A i \in DOMAIN call.arg.revreport_df :
                  Lower(call.arg.revreport_df[i].report_columns) # Lower(c)

(***************************************************************************)
(* A failure inside save_to_db (db_table.py; save_column_mappings_to_db of *)
(* project.py is the same code)                                            *)
(***************************************************************************)
\* the step ends this session's save_to_db
SaveEnded ==
    txn.open /\ ~txn'.open

\* C24: a save_to_db that ends before every pair was executed, or whose
\* commit fails, reports the error and leaves the store as it was; the store
\* takes the pairs of a call only in the step that commits them all, after
\* the last one was executed; executing a statement commits nothing.
C24_FailedSaveCommitsNothing ==
    [][/\ SaveEnded => notice'.msg \in {"error", "added", "updated"}
       /\ (SaveEnded /\ Len(txn.writes) < Len(column_mapping)) =>
              notice'.msg = "error"
       /\ (SaveEnded /\ notice'.msg = "error") => store' = store
       /\ (SaveEnded /\ notice'.msg # "error") =>
              /\ Len(txn.writes) = Len(column_mapping)
              /\ store' = ApplyWrites(store, txn.writes)
       /\ (txn.open /\ txn'.open /\ txn' # txn) => store' = store]_vars

\* the call failed after it had executed a pair, and the store holds no row
\* of that pair's source
C24_Witness ==
    /\ notice.msg = "error"
    /\ notice.saved # <<>>
    /\ notice.saved[1].report_columns \notin Keys(store)
    /\ notice.after = notice.before
    /\ column_mapping # <<>>

(***************************************************************************)
(* sanitize_table_name applied to its own result (project.py)              *)
(***************************************************************************)
\* a name of lower-case letters, digits and underscores that starts with a
\* letter
ValidTableName(name) ==
    /\ name # <<>>
    /\ IsAlpha(name[1])
    /\ \A i \in DOMAIN name :
           (IsAlnum(name[i]) \/ name[i] = "_") /\ ~IsUpper(name[i])

\* C25: for every file name sanitize_table_name returns a valid table name,
\* and applied to that name it returns the same name.
C25_ValidAndIdempotent ==
    (call.fn = "sanitize_table_name" /\ call.done) =>
        /\ call.result.ok
        /\ ValidTableName(call.result.name)
        /\ sanitize_table_name(call.result.name) = call.result

====
